---- MODULE Spec2Model ----
(***************************************************************************)
(* Model of run_export.py: export_plant_json (validation, directories,     *)
(* run.scr synthesis, host launch, exit code) and the entry point main.    *)
(*                                                                         *)
(* A string is a sequence of tokens; a token is a path segment, a          *)
(* separator, the drive anchor, a quote, a newline or a fixed word.        *)
(* The filesystem maps absolute part sequences to entries and is shared    *)
(* by the runs; every other variable is per run.                           *)
(***************************************************************************)
EXTENDS Integers, Sequences, FiniteSets, TLC

\* ------------------------------------------------------------------ bounds
\* Host exit codes are drawn from 0..MaxExitCode.
MaxExitCode == 3
\* A direct call differs from the default request in at most this many
\* arguments; an entry-point run sets at most this many environment variables.
MaxDeviations == 1

\* The runs that may be in flight together.
Runs == {1, 2}

\* ------------------------------------------------------------ string tokens
Anchor == "C:\\"
Sep == "\\"
AltSep == "/"
Quote == "\""
NL == "\n"

\* ------------------------------------------------------------------ pathlib
IsSegment(t) == t \notin {Sep, AltSep, Anchor, ".", ""}

\* Path(s): parse a string; separators of either kind split it, "." and
\* empty segments are dropped.
Path(s) ==
    [abs |-> (s # <<>>) /\ (s[1] = Anchor), parts |-> SelectSeq(s, IsSegment)]

RECURSIVE JoinSep(_)
JoinSep(parts) ==
    IF Len(parts) <= 1 THEN parts
    ELSE <<Head(parts), Sep>> \o JoinSep(Tail(parts))

\* str(p)
Str(p) ==
    IF p.abs THEN <<Anchor>> \o JoinSep(p.parts)
    ELSE IF p.parts = <<>> THEN <<".">>
    ELSE JoinSep(p.parts)

\* p / name
Child(p, name) == [p EXCEPT !.parts = Append(@, name)]

\* p.parent
Parent(p) ==
    IF p.parts = <<>> THEN p
    ELSE [p EXCEPT !.parts = SubSeq(@, 1, Len(@) - 1)]

\* ----------------------------------------------------------------- os level
\* Current directory of the calling process.
CWD == <<"cwd">>

\* The absolute location a path denotes for a process whose current
\* directory is cwd.
Resolve(cwd, p) == IF p.abs THEN p.parts ELSE cwd \o p.parts

Dir == [kind |-> "dir", text |-> <<>>]
File(text) == [kind |-> "file", text |-> text]

\* Path.exists(), Path.is_dir() as seen by the calling process.
Exists(f, p) == Resolve(CWD, p) \in DOMAIN f
IsDir(f, p) == Exists(f, p) /\ f[Resolve(CWD, p)].kind = "dir"

ProperPrefixes(a) == {SubSeq(a, 1, k) : k \in 0..(Len(a) - 1)}
Prefixes(a) == ProperPrefixes(a) \cup {a}

\* Path.mkdir(parents=True, exist_ok=True) on absolute location a: the set
\* of possible results.  It fails when a or one of its ancestors is a file,
\* or when the system denies creating one of the missing levels (the levels
\* above the denied one have been created by then).
MkDirs(f, a) ==
    LET missing == {q \in Prefixes(a) : q \notin DOMAIN f}
        blocked == \E q \in Prefixes(a) : q \in DOMAIN f /\ f[q].kind = "file"
        make(S) == [q \in DOMAIN f \cup S |-> IF q \in DOMAIN f THEN f[q] ELSE Dir]
    IN  IF blocked THEN {[ok |-> FALSE, fs |-> f]}
        ELSE {[ok |-> TRUE, fs |-> make(missing)]}
             \cup {[ok |-> FALSE, fs |-> make({q \in missing : Len(q) < Len(d)})] :
                      d \in missing}

\* ----------------------------------------------------- defaults of run_export
DefaultAcad ==
    <<Anchor, "Program Files", Sep, "Autodesk", Sep, "AutoCAD 2026", Sep, "acad.exe">>
DefaultWorkdir == <<Anchor, "PlantAutomationRun">>
DefaultProject ==
    <<Anchor, "Users", Sep, "aleja", Sep, "Downloads", Sep, "NIRAS P3D Demo Project",
      Sep, "P3D-FBUK Example Project", Sep, "Project.xml">>
DefaultOut == <<Anchor, "PlantAutomationRun", Sep, "plant_export.json">>
DefaultOutName == "plant_export.json"

\* default_plugin_dll(): the resolved directory of the module, then the
\* build output path.
RepoRoot == [abs |-> TRUE, parts |-> <<"repo">>]
default_plugin_dll ==
    Child(Child(Child(Child(Child(RepoRoot, "addin"), "bin"), "Release"),
                "net8.0-windows"), "PlantJsonExporter.dll")

\* ------------------------------------------------------------------ inputs
AcadInputs ==
    { DefaultAcad,
      <<Anchor, "Program Files", Sep, "Autodesk", Sep, "acad.exe">>,   \* absent
      <<Anchor, "Program Files", Sep, "Autodesk">> }                   \* a directory
ProjectInputs ==
    { DefaultProject,
      <<"proj", AltSep, "Project.xml">>,                               \* relative
      <<"proj", Sep, "none.xml">> }                                    \* absent
PluginInputs ==
    { <<Anchor, "repo", Sep, "addin", Sep, "bin", Sep, "Release", Sep,
        "net8.0-windows", Sep, "PlantJsonExporter.dll">>,
      <<".", Sep, "plug in", Sep, "b.dll">>,                           \* relative
      <<Anchor, "repo", Sep, "missing.dll">> }                         \* absent
OutInputs ==
    { DefaultOut,
      <<"out", Sep, "r.json">>,                                        \* relative
      <<"proj">>,                                                      \* a directory
      <<"proj", Sep, "Project.xml", Sep, "x.json">> }                  \* under a file
WorkdirInputs ==
    { DefaultWorkdir,
      <<"wdA">>,                                                       \* relative
      <<Anchor, "cwd", Sep, "wdA">> }                                  \* same place

ExitCodes == 0..MaxExitCode

\* Files present before any run; their ancestors are directories.  The
\* directory cwd\wdA holds the run.scr of an earlier run, the default
\* working directory does not exist yet.
InitFiles ==
    { Path(DefaultAcad).parts, Path(DefaultProject).parts, default_plugin_dll.parts,
      <<"cwd", "proj", "Project.xml">>, <<"cwd", "plug in", "b.dll">>,
      <<"cwd", "wdA", "run.scr">> }
InitFS ==
    LET dirs == UNION {ProperPrefixes(a) : a \in InitFiles}
    IN  [a \in InitFiles \cup dirs |->
            IF a \in InitFiles THEN File(<<"old">>) ELSE Dir]

\* ------------------------------------------------------------ environments
EnvProject == "PLANT_PROJECT_XML"
EnvOut == "PLANT_JSON_OUT"
EnvPlugin == "PLANT_PLUGIN_DLL"
Unset == <<"">>

EnvOf(p, o, d) ==
    LET v == [k \in {EnvProject, EnvOut, EnvPlugin} |->
                 IF k = EnvProject THEN p ELSE IF k = EnvOut THEN o ELSE d]
    IN  [k \in {n \in DOMAIN v : v[n] # Unset} \cup {"PATH"} |->
            IF k = "PATH" THEN <<"bin">> ELSE v[k]]

\* Environments an entry-point run may start in.
Environs ==
    { e \in { EnvOf(p, o, d) : p \in ProjectInputs \cup {Unset},
                               o \in OutInputs \cup {Unset},
                               d \in PluginInputs \cup {Unset} } :
        Cardinality(DOMAIN e \ {"PATH"}) <= MaxDeviations }

\* Environments of a caller of export_plant_json: without the variables, or
\* with values left over from something else.
CallerEnvirons ==
    { EnvOf(Unset, Unset, Unset),
      EnvOf(<<"proj", Sep, "none.xml">>, <<"proj">>, Unset) }

\* os.environ.get(key, default)
EnvGet(e, key, default) == IF key \in DOMAIN e THEN e[key] ELSE default

ArgNames == {"project_xml", "out_json", "plugin_dll", "acad_exe", "workdir"}

DefaultArgs ==
    [project_xml |-> DefaultProject, out_json |-> DefaultOut,
     plugin_dll |-> Str(default_plugin_dll),
     acad_exe |-> DefaultAcad, workdir |-> DefaultWorkdir]

\* Requests that are wrong or unusual in several arguments at once: nothing
\* required exists; project and plugin are absent; every path is relative.
ExtraRequests ==
    { [project_xml |-> <<"proj", Sep, "none.xml">>, out_json |-> DefaultOut,
       plugin_dll |-> <<Anchor, "repo", Sep, "missing.dll">>,
       acad_exe |-> <<Anchor, "Program Files", Sep, "Autodesk", Sep, "acad.exe">>,
       workdir |-> DefaultWorkdir],
      [project_xml |-> <<"proj", Sep, "none.xml">>, out_json |-> <<"out", Sep, "r.json">>,
       plugin_dll |-> <<Anchor, "repo", Sep, "missing.dll">>,
       acad_exe |-> DefaultAcad, workdir |-> <<"wdA">>],
      [project_xml |-> <<"proj", AltSep, "Project.xml">>,
       out_json |-> <<"out", Sep, "r.json">>,
       plugin_dll |-> <<".", Sep, "plug in", Sep, "b.dll">>,
       acad_exe |-> DefaultAcad, workdir |-> <<"wdA">>] }

\* Argument tuples of a direct call of export_plant_json.
Requests ==
    { q \in [project_xml : ProjectInputs, out_json : OutInputs,
             plugin_dll : PluginInputs, acad_exe : AcadInputs,
             workdir : WorkdirInputs] :
        Cardinality({n \in ArgNames : q[n] # DefaultArgs[n]}) <= MaxDeviations }
    \cup ExtraRequests

\* ------------------------------------------------------------- script, argv
RECURSIVE JoinWith(_, _)
JoinWith(lines, sep) ==
    IF lines = <<>> THEN <<>>
    ELSE IF Len(lines) = 1 THEN lines[1]
    ELSE lines[1] \o sep \o JoinWith(Tail(lines), sep)

\* Variant: the plugin path is written without the quotes around it.
ScrText_unquoted(plugin_dll) ==
    JoinWith(<< <<"_.NETLOAD">>, Str(plugin_dll), <<"_.EXPORTPLANTJSON">>,
                <<"_.QUIT">>, <<"Y">> >>, <<NL>>) \o <<NL>>

\* scr_text (lines 35-43)
ScrText(plugin_dll) ==
    JoinWith(<< <<"_.NETLOAD">>,
                <<Quote>> \o Str(plugin_dll) \o <<Quote>>,
                <<"_.EXPORTPLANTJSON">>,
                <<"_.QUIT">>,
                <<"Y">> >>, <<NL>>) \o <<NL>>

\* Variant: the script is put in the current directory, whatever the
\* working directory is.
ScrPath_cwd(workdir) == Child(Path(<<>>), "run.scr")

\* scr_path (line 32)
ScrPath(workdir) == Child(workdir, "run.scr")

\* env (lines 46-48)
ChildEnv(e, project_xml, out_json) ==
    [k \in DOMAIN e \cup {EnvProject, EnvOut} |->
        IF k = EnvProject THEN Str(project_xml)
        ELSE IF k = EnvOut THEN Str(out_json)
        ELSE e[k]]

\* Variant: the batch flag is left out.
Cmd_noBatchFlag(acad, scr_path) ==
    <<Str(acad), <<"/product">>, <<"PLNT3D">>, Str(scr_path)>>

\* cmd (lines 50-56)
Cmd(acad, scr_path) ==
    <<Str(acad), <<"/product">>, <<"PLNT3D">>, <<"/b">>, Str(scr_path)>>

\* raise SystemExit(code): the status the operating system reports.
ExitModulus == 256

\* Variant: the entry point reports only success or failure.
SysExit_flag(code) == IF code = 0 THEN 0 ELSE 1

SysExit(code) == code % ExitModulus

\* Variant: an exception is swallowed and the process ends with status 0.
Terminate_swallow(via_main, out) ==
    IF ~via_main THEN -1
    ELSE IF out.kind = "return" THEN SysExit(out.value)
    ELSE 0

\* How the process of a run ends: nothing to report for a direct call, the
\* returned integer through SystemExit, 1 for an exception nobody caught.
NotExited == -1
Terminate(via_main, out) ==
    IF ~via_main THEN NotExited
    ELSE IF out.kind = "return" THEN SysExit(out.value)
    ELSE 1

\* ------------------------------------------------------------------- state
VARIABLES
    fs,        \* the filesystem
    pc,        \* where each run is
    viaMain,   \* whether the run entered through main
    environ,   \* os.environ of the run's process
    args,      \* the arguments export_plant_json was called with
    loc,       \* its local variables
    wrote,     \* what the run's write_text completed with
    launch,    \* the subprocess.run call of the run
    outcome,   \* how export_plant_json ended
    exitcode,  \* exit status of the entry point's process
    effects    \* the filesystem and process operations the run attempted

vars == <<fs, pc, viaMain, environ, args, loc, wrote, launch, outcome, exitcode, effects>>

NoPath == [abs |-> FALSE, parts |-> <<>>]
NoArgs == [n \in ArgNames |-> <<>>]
NoLocals ==
    [acad |-> NoPath, project_xml |-> NoPath, out_json |-> NoPath,
     plugin_dll |-> NoPath, workdir |-> NoPath, scr_path |-> NoPath, scr_text |-> <<>>]
NoWrite == [done |-> FALSE, at |-> <<>>, text |-> <<>>]
NoCode == -1
NoLaunch ==
    [started |-> FALSE, cmd |-> <<>>, env |-> <<>>, cwd |-> <<>>, script |-> <<>>,
     returncode |-> NoCode]
NoOutcome == [kind |-> "none", value |-> 0, exc |-> "", msg |-> <<>>, at |-> ""]

Init ==
    /\ fs = InitFS
    /\ pc = [r \in Runs |-> "idle"]
    /\ viaMain = [r \in Runs |-> FALSE]
    /\ environ = [r \in Runs |-> EnvOf(Unset, Unset, Unset)]
    /\ args = [r \in Runs |-> NoArgs]
    /\ loc = [r \in Runs |-> NoLocals]
    /\ wrote = [r \in Runs |-> NoWrite]
    /\ launch = [r \in Runs |-> NoLaunch]
    /\ outcome = [r \in Runs |-> NoOutcome]
    /\ exitcode = [r \in Runs |-> NotExited]
    /\ effects = [r \in Runs |-> <<>>]

\* ----------------------------------------------------------------- helpers
\* The call export_plant_json(...) up to line 20.
Enter(r, a) ==
    /\ args' = [args EXCEPT ![r] = a]
    /\ loc' = [loc EXCEPT ![r] =
                 [NoLocals EXCEPT !.acad = Path(a.acad_exe),
                                  !.project_xml = Path(a.project_xml),
                                  !.out_json = Path(a.out_json),
                                  !.plugin_dll = Path(a.plugin_dll),
                                  !.workdir = Path(a.workdir)]]
    /\ pc' = [pc EXCEPT ![r] = "check_acad"]

\* An exception leaves export_plant_json; nothing catches it.
Raise(r, exc, msg) ==
    LET out == [kind |-> "raise", value |-> 0, exc |-> exc, msg |-> msg, at |-> pc[r]]
    IN  /\ outcome' = [outcome EXCEPT ![r] = out]
        /\ exitcode' = [exitcode EXCEPT ![r] = Terminate(viaMain[r], out)]
        /\ pc' = [pc EXCEPT ![r] = "done"]

Attempt(r, what) == effects' = [effects EXCEPT ![r] = Append(@, what)]

\* ----------------------------------------------------------------- actions
\* main (lines 74-83) in a process started with environment e.
Main(r) ==
    /\ pc[r] = "idle"
    /\ \E e \in Environs :
         LET out == EnvGet(e, EnvOut, DefaultOut)
             out_json == IF IsDir(fs, Path(out))
                         THEN Str(Child(Path(out), DefaultOutName))
                         ELSE out
         IN  /\ environ' = [environ EXCEPT ![r] = e]
             /\ Enter(r, [DefaultArgs EXCEPT
                            !.project_xml = EnvGet(e, EnvProject, DefaultProject),
                            !.out_json = out_json,
                            !.plugin_dll = EnvGet(e, EnvPlugin, Str(default_plugin_dll))])
    /\ viaMain' = [viaMain EXCEPT ![r] = TRUE]
    /\ UNCHANGED <<fs, wrote, launch, outcome, exitcode, effects>>

\* A caller invokes export_plant_json directly (lines 6-20).
Call(r) ==
    /\ pc[r] = "idle"
    /\ \E q \in Requests, e \in CallerEnvirons :
         /\ environ' = [environ EXCEPT ![r] = e]
         /\ Enter(r, q)
    /\ UNCHANGED <<fs, viaMain, wrote, launch, outcome, exitcode, effects>>

\* Variant: the working directory is created before the first check.
CheckAcad_mkdirFirst(r) ==
    /\ pc[r] = "check_acad"
    /\ \E res \in MkDirs(fs, Resolve(CWD, loc[r].workdir)) : fs' = res.fs
    /\ IF Exists(fs, loc[r].acad)
       THEN /\ pc' = [pc EXCEPT ![r] = "check_project"]
            /\ UNCHANGED <<outcome, exitcode>>
       ELSE Raise(r, "FileNotFoundError", Str(loc[r].acad))
    /\ Attempt(r, "mkdir_workdir")
    /\ UNCHANGED <<viaMain, environ, args, loc, wrote, launch>>

\* lines 22-23
CheckAcad(r) ==
    /\ pc[r] = "check_acad"
    /\ IF Exists(fs, loc[r].acad)
       THEN /\ pc' = [pc EXCEPT ![r] = "check_project"]
            /\ UNCHANGED <<outcome, exitcode>>
       ELSE Raise(r, "FileNotFoundError", Str(loc[r].acad))
    /\ UNCHANGED <<fs, viaMain, environ, args, loc, wrote, launch, effects>>

\* Variant: the error of the project check carries the plugin path.
CheckProject_wrongPath(r) ==
    /\ pc[r] = "check_project"
    /\ IF Exists(fs, loc[r].project_xml)
       THEN /\ pc' = [pc EXCEPT ![r] = "check_plugin"]
            /\ UNCHANGED <<outcome, exitcode>>
       ELSE Raise(r, "FileNotFoundError", Str(loc[r].plugin_dll))
    /\ UNCHANGED <<fs, viaMain, environ, args, loc, wrote, launch, effects>>

\* lines 24-25
CheckProject(r) ==
    /\ pc[r] = "check_project"
    /\ IF Exists(fs, loc[r].project_xml)
       THEN /\ pc' = [pc EXCEPT ![r] = "check_plugin"]
            /\ UNCHANGED <<outcome, exitcode>>
       ELSE Raise(r, "FileNotFoundError", Str(loc[r].project_xml))
    /\ UNCHANGED <<fs, viaMain, environ, args, loc, wrote, launch, effects>>

\* lines 26-27
CheckPlugin(r) ==
    /\ pc[r] = "check_plugin"
    /\ IF Exists(fs, loc[r].plugin_dll)
       THEN /\ pc' = [pc EXCEPT ![r] = "mkdir_workdir"]
            /\ UNCHANGED <<outcome, exitcode>>
       ELSE Raise(r, "FileNotFoundError", Str(loc[r].plugin_dll))
    /\ UNCHANGED <<fs, viaMain, environ, args, loc, wrote, launch, effects>>

\* line 29
MkdirWorkdir(r) ==
    /\ pc[r] = "mkdir_workdir"
    /\ \E res \in MkDirs(fs, Resolve(CWD, loc[r].workdir)) :
         /\ fs' = res.fs
         /\ IF res.ok
            THEN /\ pc' = [pc EXCEPT ![r] = "mkdir_out"]
                 /\ UNCHANGED <<outcome, exitcode>>
            ELSE Raise(r, "OSError", Str(loc[r].workdir))
    /\ Attempt(r, "mkdir_workdir")
    /\ UNCHANGED <<viaMain, environ, args, loc, wrote, launch>>

\* line 30
MkdirOut(r) ==
    /\ pc[r] = "mkdir_out"
    /\ \E res \in MkDirs(fs, Resolve(CWD, Parent(loc[r].out_json))) :
         /\ fs' = res.fs
         /\ IF res.ok
            THEN /\ pc' = [pc EXCEPT ![r] = "open_scr"]
                 /\ UNCHANGED <<outcome, exitcode>>
            ELSE Raise(r, "OSError", Str(Parent(loc[r].out_json)))
    /\ Attempt(r, "mkdir_out")
    /\ UNCHANGED <<viaMain, environ, args, loc, wrote, launch>>

\* Variant: the project path is written into the script as a sixth line.
OpenScr_embedProject(r) ==
    /\ pc[r] = "open_scr"
    /\ LET scr_path == ScrPath(loc[r].workdir)
           scr_text == ScrText(loc[r].plugin_dll) \o Str(loc[r].project_xml) \o <<NL>>
           target == Resolve(CWD, scr_path)
           openable == /\ IsDir(fs, Parent(scr_path))
                       /\ (target \in DOMAIN fs => fs[target].kind = "file")
       IN  /\ loc' = [loc EXCEPT ![r].scr_path = scr_path, ![r].scr_text = scr_text]
           /\ \E granted \in BOOLEAN :
                IF granted /\ openable
                THEN /\ fs' = [a \in DOMAIN fs \cup {target} |->
                                  IF a = target THEN File(<<>>) ELSE fs[a]]
                     /\ pc' = [pc EXCEPT ![r] = "write_scr"]
                     /\ UNCHANGED <<outcome, exitcode>>
                ELSE /\ fs' = fs
                     /\ Raise(r, "OSError", Str(scr_path))
    /\ Attempt(r, "open_scr")
    /\ UNCHANGED <<viaMain, environ, args, wrote, launch>>

\* lines 32-44, first half of write_text: the file is opened for writing,
\* which creates it or empties it.
OpenScr(r) ==
    /\ pc[r] = "open_scr"
    /\ LET scr_path == ScrPath(loc[r].workdir)
           scr_text == ScrText(loc[r].plugin_dll)
           target == Resolve(CWD, scr_path)
           openable == /\ IsDir(fs, Parent(scr_path))
                       /\ (target \in DOMAIN fs => fs[target].kind = "file")
       IN  /\ loc' = [loc EXCEPT ![r].scr_path = scr_path, ![r].scr_text = scr_text]
           /\ \E granted \in BOOLEAN :
                IF granted /\ openable
                THEN /\ fs' = [a \in DOMAIN fs \cup {target} |->
                                  IF a = target THEN File(<<>>) ELSE fs[a]]
                     /\ pc' = [pc EXCEPT ![r] = "write_scr"]
                     /\ UNCHANGED <<outcome, exitcode>>
                ELSE /\ fs' = fs
                     /\ Raise(r, "OSError", Str(scr_path))
    /\ Attempt(r, "open_scr")
    /\ UNCHANGED <<viaMain, environ, args, wrote, launch>>

\* Variant: a failed write is ignored and the run goes on to the launch.
WriteScr_ignoreFailure(r) ==
    /\ pc[r] = "write_scr"
    /\ LET target == Resolve(CWD, loc[r].scr_path)
       IN  \E stored \in BOOLEAN :
             IF stored
             THEN /\ fs' = [fs EXCEPT ![target] = File(loc[r].scr_text)]
                  /\ wrote' = [wrote EXCEPT ![r] =
                                 [done |-> TRUE, at |-> target, text |-> loc[r].scr_text]]
             ELSE UNCHANGED <<fs, wrote>>
    /\ pc' = [pc EXCEPT ![r] = "launch"]
    /\ Attempt(r, "write_scr")
    /\ UNCHANGED <<viaMain, environ, args, loc, launch, outcome, exitcode>>

\* line 44, second half of write_text: the text is written and the file
\* closed; when the device refuses the data the file stays as it is.
WriteScr(r) ==
    /\ pc[r] = "write_scr"
    /\ LET target == Resolve(CWD, loc[r].scr_path)
       IN  \E stored \in BOOLEAN :
             IF stored
             THEN /\ fs' = [fs EXCEPT ![target] = File(loc[r].scr_text)]
                  /\ wrote' = [wrote EXCEPT ![r] =
                                 [done |-> TRUE, at |-> target, text |-> loc[r].scr_text]]
                  /\ pc' = [pc EXCEPT ![r] = "launch"]
                  /\ UNCHANGED <<outcome, exitcode>>
             ELSE /\ UNCHANGED <<fs, wrote>>
                  /\ Raise(r, "OSError", Str(loc[r].scr_path))
    /\ Attempt(r, "write_scr")
    /\ UNCHANGED <<viaMain, environ, args, loc, launch>>

\* lines 46-58: the child process is created, or the system refuses.
Launch(r) ==
    /\ pc[r] = "launch"
    /\ LET exe == Resolve(CWD, loc[r].acad)
           startable == exe \in DOMAIN fs /\ fs[exe].kind = "file"
           script == Resolve(CWD, loc[r].scr_path)
       IN  \E created \in BOOLEAN :
             IF created /\ startable
             THEN /\ launch' = [launch EXCEPT ![r] =
                       [started |-> TRUE,
                        cmd |-> Cmd(loc[r].acad, loc[r].scr_path),
                        env |-> ChildEnv(environ[r], loc[r].project_xml, loc[r].out_json),
                        cwd |-> Str(loc[r].workdir),
                        script |-> fs[script].text,
                        returncode |-> NoCode]]
                  /\ pc' = [pc EXCEPT ![r] = "wait"]
                  /\ UNCHANGED <<outcome, exitcode>>
             ELSE /\ UNCHANGED launch
                  /\ Raise(r, "OSError", Str(loc[r].acad))
    /\ Attempt(r, "launch")
    /\ UNCHANGED <<fs, viaMain, environ, args, loc, wrote>>

\* return completed.returncode (line 59)
Returned(completed) ==
    [NoOutcome EXCEPT !.kind = "return", !.value = completed.returncode, !.at = "wait"]

\* lines 58-59, 83, 87: the host terminates with code c; subprocess.run
\* hands it over, it is returned, and an entry-point run exits with it.
HostExit(r) ==
    /\ pc[r] = "wait"
    /\ \E c \in ExitCodes :
         LET completed == [launch[r] EXCEPT !.returncode = c]
         IN  /\ launch' = [launch EXCEPT ![r] = completed]
             /\ outcome' = [outcome EXCEPT ![r] = Returned(completed)]
             /\ exitcode' = [exitcode EXCEPT ![r] =
                                Terminate(viaMain[r], Returned(completed))]
    /\ pc' = [pc EXCEPT ![r] = "done"]
    /\ UNCHANGED <<fs, viaMain, environ, args, loc, wrote, effects>>

Next ==
    \E r \in Runs :
        \/ Main(r)
        \/ Call(r)
        \/ CheckAcad(r)
        \/ CheckProject(r)
        \/ CheckPlugin(r)
        \/ MkdirWorkdir(r)
        \/ MkdirOut(r)
        \/ OpenScr(r)
        \/ WriteScr(r)
        \/ Launch(r)
        \/ HostExit(r)

Spec == Init /\ [][Next]_vars

TypeOK ==
    /\ \A r \in Runs : pc[r] \in {"idle", "check_acad", "check_project", "check_plugin",
                                  "mkdir_workdir", "mkdir_out", "open_scr", "write_scr",
                                  "launch", "wait", "done"}
    /\ \A a \in DOMAIN fs : a = <<>> \/ SubSeq(a, 1, Len(a) - 1) \in DOMAIN fs

\* ================================================================ properties
Done(r) == pc[r] = "done"
Launched(r) == launch[r].started
Rejected(r) == outcome[r].kind = "raise" /\ outcome[r].exc = "FileNotFoundError"

\* The three required inputs of a run, in the order host executable,
\* project file, plugin binary, as the call received them.
Required(r) ==
    <<Path(args[r].acad_exe), Path(args[r].project_xml), Path(args[r].plugin_dll)>>
Missing(r) == {i \in 1..3 : ~Exists(fs, Required(r)[i])}
FirstMissing(r) == CHOOSE i \in Missing(r) : \A j \in Missing(r) : i <= j

\* The working directory of a run as a location.
WorkdirOf(r) == Resolve(CWD, Path(args[r].workdir))

\* text.splitlines()
RECURSIVE SplitLines(_)
SplitLines(t) ==
    IF t = <<>> THEN <<>>
    ELSE LET stops == {i \in 1..Len(t) : t[i] = NL}
             k == IF stops = {} THEN Len(t) + 1
                  ELSE CHOOSE i \in stops : \A j \in stops : i <= j
         IN  <<SubSeq(t, 1, k - 1)>> \o SplitLines(SubSeq(t, k + 1, Len(t)))

\* s occurs in t
Occurs(s, t) ==
    \E i \in 1..(Len(t) - Len(s) + 1) : SubSeq(t, i, i + Len(s) - 1) = s

\* C1: a call with a required path that does not exist never gets past the
\* checks; it ends with FileNotFoundError carrying the first missing path in
\* the order host executable, project file, plugin binary.
C1_MissingInputNamed ==
    \A r \in Runs :
        (pc[r] # "idle" /\ Missing(r) # {}) =>
            /\ pc[r] \in {"check_acad", "check_project", "check_plugin", "done"}
            /\ Done(r) =>
                 /\ Rejected(r)
                 /\ outcome[r].msg = Str(Required(r)[FirstMissing(r)])

C1_Witness ==
    \E r \in Runs :
        /\ Done(r) /\ Rejected(r)
        /\ Missing(r) = {2, 3}
        /\ outcome[r].msg = Str(Path(args[r].project_xml))

\* C2: a run rejected for a missing input attempted no directory creation,
\* no script write and no launch; when the other runs did nothing either,
\* the filesystem is the one the run started with.
C2_RejectionLeavesNoTrace ==
    \A r \in Runs :
        Rejected(r) =>
            /\ effects[r] = <<>>
            /\ ~wrote[r].done
            /\ ~Launched(r)
            /\ (\A s \in Runs \ {r} : effects[s] = <<>>) => fs = InitFS

C2_Witness ==
    \E r \in Runs :
        /\ Rejected(r) /\ outcome[r].at = "check_plugin"
        /\ WorkdirOf(r) \notin DOMAIN fs
        /\ Resolve(CWD, Child(Path(args[r].workdir), "run.scr")) \notin DOMAIN fs
        /\ fs = InitFS

\* The lines the script is made of, for plugin path P.
FiveLines(P) ==
    << <<"_.NETLOAD">>, <<Quote>> \o Str(P) \o <<Quote>>,
       <<"_.EXPORTPLANTJSON">>, <<"_.QUIT">>, <<"Y">> >>

\* C3 as stated: the script written to run.scr has exactly four lines and
\* ends with a newline.
C3_FourLines ==
    \A r \in Runs :
        wrote[r].done =>
            /\ Len(SplitLines(wrote[r].text)) = 4
            /\ wrote[r].text[Len(wrote[r].text)] = NL

\* C3 amended: the script written to run.scr has exactly five lines, in
\* the order _.NETLOAD, the quoted plugin path, _.EXPORTPLANTJSON, _.QUIT, Y,
\* and ends with a newline; the load-plugin command takes the first two.
C3_FiveLines ==
    \A r \in Runs :
        wrote[r].done =>
            /\ SplitLines(wrote[r].text) = FiveLines(Path(args[r].plugin_dll))
            /\ wrote[r].text[Len(wrote[r].text)] = NL
            /\ wrote[r].at = Resolve(CWD, Child(Path(args[r].workdir), "run.scr"))

C3_Witness ==
    \E r \in Runs :
        /\ wrote[r].done
        /\ "plug in" \in {args[r].plugin_dll[i] : i \in DOMAIN args[r].plugin_dll}
        /\ fs[wrote[r].at].text = wrote[r].text
        /\ Len(SplitLines(wrote[r].text)) = 5

\* C4: two runs given the same plugin path write the same script text,
\* whatever else they were given; project and output path are handed to the
\* child in PLANT_PROJECT_XML and PLANT_JSON_OUT, the rest of the environment
\* is the caller's, and neither path occurs in the script or the arguments.
C4_ScriptDependsOnPluginOnly ==
    /\ \A r, s \in Runs :
         (wrote[r].done /\ wrote[s].done /\ args[r].plugin_dll = args[s].plugin_dll)
            => wrote[r].text = wrote[s].text
    /\ \A r \in Runs :
         wrote[r].done =>
            /\ ~Occurs(Str(Path(args[r].project_xml)), wrote[r].text)
            /\ ~Occurs(Str(Path(args[r].out_json)), wrote[r].text)
    /\ \A r \in Runs :
         Launched(r) =>
            /\ launch[r].env[EnvProject] = Str(Path(args[r].project_xml))
            /\ launch[r].env[EnvOut] = Str(Path(args[r].out_json))
            /\ \A k \in DOMAIN environ[r] \ {EnvProject, EnvOut} :
                  launch[r].env[k] = environ[r][k]
            /\ \A i \in DOMAIN launch[r].cmd :
                  /\ launch[r].cmd[i] # Str(Path(args[r].project_xml))
                  /\ launch[r].cmd[i] # Str(Path(args[r].out_json))

C4_Witness ==
    \E r, s \in Runs :
        /\ Launched(r) /\ wrote[s].done
        /\ args[r].plugin_dll = args[s].plugin_dll
        /\ args[r].project_xml # args[s].project_xml
        /\ args[r].out_json # args[s].out_json
        /\ args[r].workdir # args[s].workdir
        /\ environ[r] # environ[s]
        /\ wrote[r].text = wrote[s].text

\* C5: when the host was launched and terminated with code c,
\* export_plant_json returns c, and an entry-point run exits with c.
C5_ExitCodePassedThrough ==
    \A r \in Runs :
        (Launched(r) /\ Done(r)) =>
            /\ launch[r].returncode \in ExitCodes
            /\ outcome[r].kind = "return"
            /\ outcome[r].value = launch[r].returncode
            /\ viaMain[r] => exitcode[r] = launch[r].returncode

C5_Witness ==
    \E r \in Runs :
        /\ Launched(r) /\ Done(r) /\ viaMain[r]
        /\ launch[r].returncode = MaxExitCode
        /\ exitcode[r] = MaxExitCode

\* C6: the host is started only after the three checks passed, both
\* directories exist and this run's script write completed; a run that
\* failed in validation, directory creation or the script write never
\* started it, and one that failed creating a directory wrote no script.
C6_LaunchOnlyAfterPreparation ==
    \A r \in Runs :
        /\ ("launch" \in {effects[r][i] : i \in DOMAIN effects[r]}) =>
              /\ Missing(r) = {}
              /\ IsDir(fs, Path(args[r].workdir))
              /\ IsDir(fs, Parent(Path(args[r].out_json)))
              /\ wrote[r].done
              /\ wrote[r].text = loc[r].scr_text
              /\ effects[r] = <<"mkdir_workdir", "mkdir_out", "open_scr", "write_scr", "launch">>
        /\ Launched(r) => "launch" \in {effects[r][i] : i \in DOMAIN effects[r]}
        /\ (outcome[r].kind = "raise" /\ outcome[r].at # "launch") =>
              /\ ~Launched(r)
              /\ "launch" \notin {effects[r][i] : i \in DOMAIN effects[r]}
        /\ (outcome[r].kind = "raise" /\ outcome[r].at \in {"mkdir_workdir", "mkdir_out"}) =>
              /\ ~wrote[r].done
              /\ "open_scr" \notin {effects[r][i] : i \in DOMAIN effects[r]}

C6_Witness ==
    \E r, s \in Runs :
        /\ Launched(r)
        /\ outcome[s].kind = "raise" /\ outcome[s].at = "write_scr"
        /\ ~Launched(s)

\* C7: the host is launched with the five arguments host executable,
\* /product, PLNT3D, /b, script path; the script path is the working
\* directory joined with run.scr, the file this run wrote; the child's
\* working directory is the request's.
C7_ArgumentVector ==
    \A r \in Runs :
        Launched(r) =>
            /\ launch[r].cmd =
                  <<Str(Path(args[r].acad_exe)), <<"/product">>, <<"PLNT3D">>, <<"/b">>,
                    Str(Child(Path(args[r].workdir), "run.scr"))>>
            /\ Resolve(CWD, Path(launch[r].cmd[Len(launch[r].cmd)])) = wrote[r].at
            /\ launch[r].cwd = Str(Path(args[r].workdir))

C7_Witness ==
    \E r \in Runs :
        /\ Launched(r)
        /\ args[r].workdir = <<"wdA">>
        /\ launch[r].cmd[5] = <<"wdA", Sep, "run.scr">>

\* C8 as stated: an entry-point run whose host did not launch exits with a
\* non-zero code that no entry-point run with a launched host exits with.
C8_DedicatedFailureCode ==
    \A r, s \in Runs :
        (viaMain[r] /\ Done(r) /\ ~Launched(r) /\ viaMain[s] /\ Done(s) /\ Launched(s)) =>
            /\ exitcode[r] # 0
            /\ exitcode[r] # exitcode[s]

\* C8 amended: an entry-point run whose host did not launch exits with
\* code 1, the status of an uncaught exception, which a launched host that
\* exits with 1 produces as well; inside the program the two differ:
\* export_plant_json raises when the host did not launch and returns an
\* integer when it did.
C8_FailureExitsOne ==
    \A r \in Runs :
        Done(r) =>
            /\ Launched(r) <=> outcome[r].kind = "return"
            /\ ~Launched(r) <=> outcome[r].kind = "raise"
            /\ (viaMain[r] /\ ~Launched(r)) => exitcode[r] = 1

C8_Witness ==
    \E r, s \in Runs :
        /\ viaMain[r] /\ Done(r) /\ ~Launched(r)
        /\ outcome[r].at = "launch" /\ exitcode[r] = 1
        /\ viaMain[s] /\ Done(s) /\ Launched(s) /\ exitcode[s] = 1

\* The path the child is told to load, read back from the second line of
\* the script the run wrote.
LoadedPath(r) ==
    LET line == SplitLines(wrote[r].text)[2]
    IN  Path(SubSeq(line, 2, Len(line) - 1))

\* The location a path denotes for the child, whose current directory is
\* the working directory.
ChildResolve(r, p) == Resolve(WorkdirOf(r), p)

\* C9: the plugin path in the script and the two environment variables are
\* absolute, and denote for the child the files the checks looked at.
C9_AbsolutePathsForChild ==
    \A r \in Runs :
        Launched(r) =>
            /\ LoadedPath(r).abs
            /\ Path(launch[r].env[EnvProject]).abs
            /\ Path(launch[r].env[EnvOut]).abs
            /\ ChildResolve(r, LoadedPath(r)) = Resolve(CWD, Path(args[r].plugin_dll))
            /\ ChildResolve(r, Path(launch[r].env[EnvProject]))
                  = Resolve(CWD, Path(args[r].project_xml))
            /\ ChildResolve(r, Path(launch[r].env[EnvOut]))
                  = Resolve(CWD, Path(args[r].out_json))

\* C10: when no other run uses the same working directory, run.scr in the
\* run's working directory holds, at the moment the host is launched, the
\* script this run wrote for its own plugin path.
C10_DisjointWorkdirsOwnScript ==
    \A r \in Runs :
        (Launched(r) /\ \A s \in Runs \ {r} : pc[s] = "idle" \/ WorkdirOf(s) # WorkdirOf(r)) =>
            /\ launch[r].script = wrote[r].text
            /\ SplitLines(launch[r].script) = FiveLines(Path(args[r].plugin_dll))

C10_Witness ==
    \E r, s \in Runs :
        /\ r # s /\ Launched(r) /\ Launched(s)
        /\ WorkdirOf(r) # WorkdirOf(s)
        /\ args[r].plugin_dll # args[s].plugin_dll
        /\ launch[r].script = wrote[r].text
        /\ launch[s].script = wrote[s].text
        /\ launch[r].script # launch[s].script

\* Two runs in one working directory: a host has been launched while
\* run.scr held something else than the script its run wrote.
SharedWorkdirRace ==
    \E r, s \in Runs :
        /\ r # s /\ Launched(r) /\ pc[s] # "idle"
        /\ WorkdirOf(r) = WorkdirOf(s)
        /\ launch[r].script # wrote[r].text

NoSharedWorkdirRace == ~SharedWorkdirRace

====
